---- MODULE Spec2Model ----
(***************************************************************************)
(* MD5 compression core and digest-state adapter (src/src/md5.ts).         *)
(*                                                                         *)
(* A JavaScript Number holding an integer n is written as the pair         *)
(* <<hi, lo>> with n = hi * 2^16 + lo and lo in 0..65535; hi is any        *)
(* integer.  Sums are therefore exact (as they are in a double below 2^53) *)
(* and the 32-bit coercions of the bitwise operators are explicit.         *)
(***************************************************************************)
EXTENDS Integers, Sequences, FiniteSets, TLC

\* ------------------------------------------------------------ numbers ----
Num(hi, lo) == <<hi + (lo \div 65536), lo % 65536>>

\* x + y on Numbers: exact, nothing is truncated
Add(x, y) == Num(x[1] + y[1], x[2] + y[2])

\* ToInt32, the coercion of `x | 0` and of every bitwise operand
ToInt32(x) == <<((x[1] + 32768) % 65536) - 32768, x[2]>>

\* ToUint32, the coercion of `>>>` and of a store into a Uint32Array
ToUint32(x) == <<x[1] % 65536, x[2]>>

\* the bitwise operators on bytes, bit by bit
RECURSIVE And8(_, _)
And8(a, b) ==
  IF a = 0 \/ b = 0 THEN 0
  ELSE (a % 2) * (b % 2) + 2 * And8(a \div 2, b \div 2)

RECURSIVE Or8(_, _)
Or8(a, b) ==
  IF a = 0 THEN b
  ELSE IF b = 0 THEN a
  ELSE (IF a % 2 = 1 \/ b % 2 = 1 THEN 1 ELSE 0) + 2 * Or8(a \div 2, b \div 2)

RECURSIVE Xor8(_, _)
Xor8(a, b) ==
  IF a = 0 THEN b
  ELSE IF b = 0 THEN a
  ELSE ((a + b) % 2) + 2 * Xor8(a \div 2, b \div 2)

\* the same, tabulated once
AndTab == [a \in 0..255 |-> [b \in 0..255 |-> And8(a, b)]]
OrTab == [a \in 0..255 |-> [b \in 0..255 |-> Or8(a, b)]]
XorTab == [a \in 0..255 |-> [b \in 0..255 |-> Xor8(a, b)]]

\* on 16-bit halves, byte by byte
And16(a, b) == AndTab[a % 256][b % 256] + 256 * AndTab[a \div 256][b \div 256]
Or16(a, b) == OrTab[a % 256][b % 256] + 256 * OrTab[a \div 256][b \div 256]
Xor16(a, b) == XorTab[a % 256][b % 256] + 256 * XorTab[a \div 256][b \div 256]

\* x & y, x | y, x ^ y, ~x: operands coerced to 32 bits, result an int32
BitAnd(x, y) == ToInt32(<<And16(x[1] % 65536, y[1] % 65536), And16(x[2], y[2])>>)
BitOr(x, y) == ToInt32(<<Or16(x[1] % 65536, y[1] % 65536), Or16(x[2], y[2])>>)
BitXor(x, y) == ToInt32(<<Xor16(x[1] % 65536, y[1] % 65536), Xor16(x[2], y[2])>>)
BitNot(x) == ToInt32(<<65535 - (x[1] % 65536), 65535 - x[2]>>)

\* x << n: the low 32 bits of x shifted left, as an int32
Shl(x, n) ==
  LET s == n % 32
      h == x[1] % 65536
      l == x[2]
  IN  IF s < 16
      THEN ToInt32(<<(h * 2^s + ((l * 2^s) \div 65536)) % 65536, (l * 2^s) % 65536>>)
      ELSE ToInt32(<<(l * 2^(s - 16)) % 65536, 0>>)

\* x >>> n: the low 32 bits of x shifted right, zero filled, as a uint32
ShrU(x, n) ==
  LET s == n % 32
      h == x[1] % 65536
      l == x[2]
  IN  IF s < 16
      THEN <<h \div 2^s, (l \div 2^s) + (h % 2^s) * 2^(16 - s)>>
      ELSE <<0, h \div 2^(s - 16)>>

\* rotl of utils: (word << shift) | ((word >>> (32 - shift)) >>> 0)
rotl(word, shift) == BitOr(Shl(word, shift), ShrU(ShrU(word, 32 - shift), 0))

\* Chi of _md: the phase-1 choice function (a AND b) OR (NOT a AND c)
Chi(a, b, c) == BitOr(BitAnd(a, b), BitAnd(BitNot(a), c))

Zero == <<0, 0>>

\* ------------------------------------------------------------- tables ----
\* Per-round constants, MD5_K[i] is MD5_K[i + 1] here (a Uint32Array)
MD5_K ==
  << <<55146, 42104>>, <<59591, 46934>>, <<9248, 28891>>, <<49597, 52974>>,
     <<62844, 4015>>, <<18311, 50730>>, <<43056, 17939>>, <<64838, 38145>>,
     <<27008, 39128>>, <<35652, 63407>>, <<65535, 23473>>, <<35164, 55230>>,
     <<27536, 4386>>, <<64920, 29075>>, <<42617, 17294>>, <<18868, 2081>>,
     <<63006, 9570>>, <<49216, 45888>>, <<9822, 23121>>, <<59830, 51114>>,
     <<54831, 4189>>, <<580, 5203>>, <<55457, 59009>>, <<59347, 64456>>,
     <<8673, 52710>>, <<49975, 2006>>, <<62677, 3463>>, <<17754, 5357>>,
     <<43491, 59653>>, <<64751, 41976>>, <<26479, 729>>, <<36138, 19594>>,
     <<65530, 14658>>, <<34673, 63105>>, <<28061, 24866>>, <<64997, 14348>>,
     <<42174, 59972>>, <<19422, 53161>>, <<63163, 19296>>, <<48831, 48240>>,
     <<10395, 32454>>, <<60065, 10234>>, <<54511, 12421>>, <<1160, 7429>>,
     <<55764, 53305>>, <<59099, 39397>>, <<8098, 31992>>, <<50348, 22117>>,
     <<62505, 8772>>, <<17194, 65431>>, <<43924, 9127>>, <<64659, 41017>>,
     <<25947, 22979>>, <<36620, 52370>>, <<65519, 62589>>, <<34180, 24017>>,
     <<28584, 32335>>, <<65068, 59104>>, <<41729, 17172>>, <<19976, 4513>>,
     <<63315, 32386>>, <<48442, 62005>>, <<10967, 53947>>, <<60294, 54161>> >>

\* Initial state 0x67452301, 0xefcdab89, 0x98badcfe, 0x10325476 (a Uint32Array)
IV == << <<26437, 8961>>, <<61389, 43913>>, <<39098, 56574>>, <<4146, 21622>> >>

\* new Uint32Array(16)
ZeroW == [i \in 0..15 |-> Zero]

\* new Uint8Array(blockLen), blockLen = 64 from super(64, 16, 8, true)
ZeroBuffer == [i \in 1..64 |-> 0]

\* ------------------------------------------------------------ process ----
\* getUint32 read big-endian (the littleEndian flag forgotten)
getUint32BE(view, offset) ==
  IF offset < 0 \/ offset + 4 > Len(view)
  THEN [ok |-> FALSE, v |-> Zero]
  ELSE [ok |-> TRUE,
        v  |-> <<view[offset + 1] * 256 + view[offset + 2],
                 view[offset + 3] * 256 + view[offset + 4]>>]

\* a byte of the view, 0 beyond its end (an unchecked read)
ByteAt(view, k) == IF k >= 1 /\ k <= Len(view) THEN view[k] ELSE 0

\* getUint32 without the bounds check: missing bytes read as 0
getUint32Padded(view, offset) ==
  [ok |-> TRUE,
   v  |-> <<ByteAt(view, offset + 4) * 256 + ByteAt(view, offset + 3),
            ByteAt(view, offset + 2) * 256 + ByteAt(view, offset + 1)>>]

\* view.getUint32(offset, true): four bytes, little-endian; a RangeError
\* (ok = FALSE) when they are not all inside the view
getUint32(view, offset) ==
  IF offset < 0 \/ offset + 4 > Len(view)
  THEN [ok |-> FALSE, v |-> Zero]
  ELSE [ok |-> TRUE,
        v  |-> <<view[offset + 4] * 256 + view[offset + 3],
                 view[offset + 2] * 256 + view[offset + 1]>>]

\* the load loop stopping quietly at the end of the view instead of throwing
RECURSIVE LoadWhileInRange(_, _, _, _)
LoadWhileInRange(i, W, view, offset) ==
  IF i < 16 /\ offset >= 0 /\ offset + 4 <= Len(view)
  THEN LoadWhileInRange(i + 1,
         [W EXCEPT ![i] = <<view[offset + 4] * 256 + view[offset + 3],
                            view[offset + 2] * 256 + view[offset + 1]>>],
         view, offset + 4)
  ELSE [W |-> W, threw |-> FALSE]

LoadTruncating(W, view, offset) == LoadWhileInRange(0, W, view, offset)

\* for (let i = 0; i < n; i++, offset += 4) MD5_W[i] = view.getUint32(offset, true)
RECURSIVE LoadLoop(_, _, _, _, _)
LoadLoop(i, n, W, view, offset) ==
  IF i < n
  THEN LET r == getUint32(view, offset)
       IN  IF r.ok
           THEN LoadLoop(i + 1, n, [W EXCEPT ![i] = r.v], view, offset + 4)
           ELSE [W |-> W, threw |-> TRUE]
  ELSE [W |-> W, threw |-> FALSE]

\* the load of the 16 message words into the scratch buffer
Load(W, view, offset) == LoadLoop(0, 16, W, view, offset)

\* the nonlinear function of round i on the working words w = <<A, B, C, D>>
F(i, w) ==
  IF i < 16 THEN Chi(w[2], w[3], w[4])
  ELSE IF i < 32 THEN Chi(w[4], w[2], w[3])
  ELSE IF i < 48 THEN BitXor(BitXor(w[2], w[3]), w[4])
  ELSE BitXor(w[3], BitOr(w[2], BitNot(w[4])))

\* g with the wrong modulus in the second phase
gWrongModulus(i) ==
  IF i < 16 THEN i
  ELSE IF i < 32 THEN (5 * i + 1) % 15
  ELSE IF i < 48 THEN (3 * i + 5) % 16
  ELSE (7 * i) % 16

\* the message-word index of round i
g(i) ==
  IF i < 16 THEN i
  ELSE IF i < 32 THEN (5 * i + 1) % 16
  ELSE IF i < 48 THEN (3 * i + 5) % 16
  ELSE (7 * i) % 16

\* the shift group of round i
s(i) ==
  IF i < 16 THEN <<7, 12, 17, 22>>
  ELSE IF i < 32 THEN <<5, 9, 14, 20>>
  ELSE IF i < 48 THEN <<4, 11, 16, 23>>
  ELSE <<6, 10, 15, 21>>

\* the shift of round i, s[i % 4]
Shift(i) == s(i)[(i % 4) + 1]

\* the sum clamped at 2^32 - 1 instead of wrapping
SumClamped(i, w, W) ==
  IF Add(Add(Add(F(i, w), w[1]), MD5_K[i + 1]), W[g(i)])[1] >= 65536
  THEN <<65535, 65535>>
  ELSE Add(Add(Add(F(i, w), w[1]), MD5_K[i + 1]), W[g(i)])

\* F = F + A + MD5_K[i] + MD5_W[g], left untruncated
Sum(i, w, W) == Add(Add(Add(F(i, w), w[1]), MD5_K[i + 1]), W[g(i)])

\* A = D; D = C; C = B; B = B + rotl(F, s[i % 4]), F being the sum T
Rotate(i, w, T) ==
  [w   |-> <<w[4], Add(w[2], rotl(T, Shift(i))), w[2], w[3]>>,
   log |-> [g |-> g(i), s |-> Shift(i), F |-> T]]

\* one round of the loop body, with what it used
Round(i, w, W) == Rotate(i, w, Sum(i, w, W))

\* the loop state <<i, <<A, B, C, D>>, MD5_W, log>> after the round r, i++
Advance(st, r) == <<st[1] + 1, r.w, st[3], Append(st[4], r.log)>>

\* for (; i < n; i++) { ... } from the loop state st
RECURSIVE Loop(_, _)
Loop(st, n) ==
  IF st[1] < n
  THEN Loop(Advance(st, Round(st[1], st[2], st[3])), n)
  ELSE st

\* for (let i = 0; i < 64; i++) { ... }: the one loop, run in four stretches
\* of 16 rounds (the stretches only keep the evaluation shallow)
Rounds(h, W) == Loop(Loop(Loop(Loop(<<0, h, W, <<>>>>, 16), 32), 48), 64)

\* set storing its arguments as they come, without | 0
SetWordsRaw(a) == <<a[1], a[2], a[3], a[4]>>

\* set(A, B, C, D): each field is the argument | 0
SetWords(a) == <<ToInt32(a[1]), ToInt32(a[2]), ToInt32(a[3]), ToInt32(a[4])>>

\* A = (A + this.A) | 0, ... ; this.set(A, B, C, D)
FeedForward(w, h) ==
  SetWords(<<ToInt32(Add(w[1], h[1])), ToInt32(Add(w[2], h[2])),
             ToInt32(Add(w[3], h[3])), ToInt32(Add(w[4], h[4]))>>)

\* the rounds and the feed-forward, once the words are loaded
Compress(h, W, r) ==
  [h |-> FeedForward(r[2], h), W |-> W, threw |-> FALSE, log |-> r[4]]

\* the rest of process after the load ld: nothing when the load threw
AfterLoad(h, ld) ==
  IF ld.threw
  THEN [h |-> h, W |-> ld.W, threw |-> TRUE, log |-> <<>>]
  ELSE Compress(h, ld.W, Rounds(h, ld.W))

\* process(view, offset) on the fields h = <<A, B, C, D>> and the scratch W:
\* the new fields, the new scratch contents, whether it threw, the round log
Process(h, W, view, offset) == AfterLoad(h, Load(W, view, offset))

\* ------------------------------------------------------------- engine ----
\* What the streaming engine does around the core (the engine's own source is
\* not part of src/; these follow its description in the specification).

RECURSIVE Zeros(_)
Zeros(n) == IF n <= 0 THEN <<>> ELSE <<0>> \o Zeros(n - 1)

\* the single padded block of a message of at most 55 bytes: the message,
\* 0x80, zero fill, the 64-bit little-endian bit length
Pad(m) ==
  m \o <<128>> \o Zeros(55 - Len(m))
    \o <<(8 * Len(m)) % 256, (8 * Len(m)) \div 256>> \o Zeros(6)

\* a state word as 4 output bytes, little-endian (setUint32(.., word, true))
WordBytes(x) ==
  <<ToUint32(x)[2] % 256, ToUint32(x)[2] \div 256,
    ToUint32(x)[1] % 256, ToUint32(x)[1] \div 256>>

\* the 16 digest bytes: A first, then B, C, D
Serialize(st) == WordBytes(st[1]) \o WordBytes(st[2]) \o WordBytes(st[3]) \o WordBytes(st[4])

HexDigit ==
  <<"0", "1", "2", "3", "4", "5", "6", "7", "8", "9", "a", "b", "c", "d", "e", "f">>

\* the lower-case hexadecimal text of a byte sequence
RECURSIVE Hex(_)
Hex(bytes) ==
  IF bytes = <<>> THEN ""
  ELSE HexDigit[(Head(bytes) \div 16) + 1] \o HexDigit[(Head(bytes) % 16) + 1]
         \o Hex(Tail(bytes))

\* ------------------------------------------------------------- inputs ----
Inst == {1, 2}

\* the messages of the known-answer vectors: "", "abc", "The quick brown fox ..."
MsgEmpty == <<>>
MsgAbc == <<97, 98, 99>>
MsgFox == <<84, 104, 101, 32, 113, 117, 105, 99, 107, 32, 98, 114, 111, 119, 110, 32, 102, 111, 120, 32, 106, 117, 109, 112, 115, 32, 111, 118, 101, 114, 32, 116, 104, 101, 32, 108, 97, 122, 121, 32, 100, 111, 103>>
Messages == {MsgEmpty, MsgAbc, MsgFox}

\* a caller's input of two full blocks (128 bytes, every byte distinct)
Stream == [i \in 1..128 |-> (i * 37 + 200) % 256]

\* the offsets process is called with on Stream: the two blocks, and one that
\* leaves only 60 readable bytes
Offsets == {0, 64, 68}
BlockOffsets == {0, 64}

\* arguments of set outside the 32-bit range: 2^32 + 5, -1, 2^31, -2^31 - 1
SetArgs == { << <<65536, 5>>, <<-1, 65535>>, <<32768, 0>>, <<-32769, 65535>> >> }

MaxCalls == 3
MaxDigestCalls == 4
MaxResumeCalls == 4

\* -------------------------------------------------------------- state ----
VARIABLES
  A, B, C, D,   \* the fields of each instance
  buffer,       \* this.buffer of each instance, 64 bytes
  MD5_W,        \* the module-level scratch buffer, 16 words
  data,         \* the caller's input bytes
  ret,          \* what the last get() returned (<<>> before any)
  out,          \* the digest bytes last written out (<<>> before any)
  log,          \* what each round of the last completed process used
  last,         \* the last call: its name, instance, arguments, outcome
  trail,        \* the calls made so far, <<name, instance>> each
  calls,        \* how many calls were made
  alone,        \* per instance: the fields of a twin that receives the same
  aloneW,       \*   calls but has a scratch buffer of its own
  whole,        \* per instance: the fields of one instance that processed the
  retWhole      \*   same blocks without interruption (while that is defined)

vars ==
  <<A, B, C, D, buffer, MD5_W, data, ret, out, log, last, trail, calls,
    alone, aloneW, whole, retWhole>>

\* get returning the words in the wrong order
GetSwapped(x) == <<A[x], B[x], D[x], C[x]>>

\* get(): const { A, B, C, D } = this; return [A, B, C, D]
Get(x) == <<A[x], B[x], C[x], D[x]>>

\* let { A, B, C, D } = this, at the start of process
This(x) == <<A[x], B[x], C[x], D[x]>>

\* the scratch buffer the methods of instance x use: the one module-level MD5_W
ScratchOf(x) == MD5_W

\* the fields kept once for all instances, as the scratch buffer is
StoreShared(x, hw) ==
  /\ A' = [y \in Inst |-> hw[1]]
  /\ B' = [y \in Inst |-> hw[2]]
  /\ C' = [y \in Inst |-> hw[3]]
  /\ D' = [y \in Inst |-> hw[4]]

\* this.A = ..; this.B = ..; this.C = ..; this.D = .. on instance x
Store(x, hw) ==
  /\ A' = [A EXCEPT ![x] = hw[1]]
  /\ B' = [B EXCEPT ![x] = hw[2]]
  /\ C' = [C EXCEPT ![x] = hw[3]]
  /\ D' = [D EXCEPT ![x] = hw[4]]

\* array.fill(v)
Fill(arr, v) == [i \in DOMAIN arr |-> v]

NoWhole == [valid |-> FALSE, h |-> <<>>]

\* the bytes readable in the view from the offset on
Readable(view, offset) ==
  IF offset < 0 \/ offset > Len(view) THEN 0 ELSE Len(view) - offset

\* bookkeeping of a call
Called(op, x, threw, view, offset, arg) ==
  /\ last' = [op |-> op, x |-> x, threw |-> threw, view |-> view,
              offset |-> offset, arg |-> arg, pre |-> <<A[x], B[x], C[x], D[x]>>]
  /\ trail' = Append(trail, <<op, x>>)
  /\ calls' = calls + 1

\* A = IV[0] | 0, ... ; MD5_W = new Uint32Array(16); buffer = new Uint8Array(64)
Fresh(input) ==
  /\ A = [x \in Inst |-> ToInt32(IV[1])]
  /\ B = [x \in Inst |-> ToInt32(IV[2])]
  /\ C = [x \in Inst |-> ToInt32(IV[3])]
  /\ D = [x \in Inst |-> ToInt32(IV[4])]
  /\ buffer = [x \in Inst |-> ZeroBuffer]
  /\ MD5_W = ZeroW
  /\ data = input
  /\ ret = <<>>
  /\ out = <<>>
  /\ log = <<>>
  /\ last = [op |-> "new", x |-> 1, threw |-> FALSE, view |-> <<>>,
             offset |-> 0, arg |-> <<>>, pre |-> <<>>]
  /\ trail = <<>>
  /\ calls = 0
  /\ alone = [x \in Inst |-> SetWords(IV)]
  /\ aloneW = [x \in Inst |-> ZeroW]
  /\ whole = [x \in Inst |-> [valid |-> TRUE, h |-> SetWords(IV)]]
  /\ retWhole = NoWhole

Init == Fresh(Stream)

\* ------------------------------------------------------------ actions ----
\* process(view, offset) on instance x, p being what it computes on x and
\* pa what it computes on x's twin
Processed(x, view, offset, p, pa) ==
  /\ IF p.threw THEN UNCHANGED <<A, B, C, D>> ELSE Store(x, p.h)
  /\ MD5_W' = p.W
  /\ log' = p.log
  /\ alone' = [alone EXCEPT ![x] = pa.h]
  /\ aloneW' = [aloneW EXCEPT ![x] = pa.W]
  /\ whole' = [whole EXCEPT ![x] =
                 IF p.threw \/ ~@.valid THEN @
                 ELSE [valid |-> TRUE, h |-> Process(@.h, ZeroW, view, offset).h]]
  /\ Called("process", x, p.threw, view, offset, <<>>)
  /\ UNCHANGED <<buffer, data, ret, out, retWhole>>

process(x, view, offset) ==
  Processed(x, view, offset,
            Process(This(x), ScratchOf(x), view, offset),
            Process(alone[x], aloneW[x], view, offset))

get(x) ==
  /\ ret' = Get(x)
  /\ retWhole' = whole[x]
  /\ Called("get", x, FALSE, <<>>, 0, <<>>)
  /\ UNCHANGED <<A, B, C, D, buffer, MD5_W, data, out, log, alone, aloneW, whole>>

\* set(a[1], a[2], a[3], a[4]) on instance x; wh is what becomes of `whole`
SetCall(op, x, a, wh) ==
  /\ Store(x, SetWords(a))
  /\ alone' = [alone EXCEPT ![x] = SetWords(a)]
  /\ whole' = [whole EXCEPT ![x] = wh]
  /\ Called(op, x, FALSE, <<>>, 0, a)
  /\ UNCHANGED <<buffer, MD5_W, data, ret, out, log, aloneW, retWhole>>

\* set with arbitrary integers
set(x, a) == SetCall("set", x, a, NoWhole)

\* set with the tuple the last get() returned: a snapshot restored
restore(x) ==
  /\ ret # <<>>
  /\ SetCall("restore", x, ret, retWhole)

roundClean(x) ==
  /\ MD5_W' = Fill(ScratchOf(x), Zero)
  /\ aloneW' = [aloneW EXCEPT ![x] = Fill(@, Zero)]
  /\ Called("roundClean", x, FALSE, <<>>, 0, <<>>)
  /\ UNCHANGED <<A, B, C, D, buffer, data, ret, out, log, alone, whole, retWhole>>

\* destroy without this.buffer.fill(0)
destroyFieldsOnly(x) ==
  /\ Store(x, SetWords(<<Zero, Zero, Zero, Zero>>))
  /\ alone' = [alone EXCEPT ![x] = SetWords(<<Zero, Zero, Zero, Zero>>)]
  /\ whole' = [whole EXCEPT ![x] = NoWhole]
  /\ Called("destroy", x, FALSE, <<>>, 0, <<>>)
  /\ UNCHANGED <<buffer, MD5_W, data, ret, out, log, aloneW, retWhole>>

\* this.set(0, 0, 0, 0); this.buffer.fill(0)
destroy(x) ==
  /\ Store(x, SetWords(<<Zero, Zero, Zero, Zero>>))
  /\ buffer' = [buffer EXCEPT ![x] = Fill(@, 0)]
  /\ alone' = [alone EXCEPT ![x] = SetWords(<<Zero, Zero, Zero, Zero>>)]
  /\ whole' = [whole EXCEPT ![x] = NoWhole]
  /\ Called("destroy", x, FALSE, <<>>, 0, <<>>)
  /\ UNCHANGED <<MD5_W, data, ret, out, log, aloneW, retWhole>>

Unchanged13 ==
  UNCHANGED <<A, B, C, D, MD5_W, data, ret, out, log, alone, aloneW, whole, retWhole>>

\* the engine copies the first bytes of the input into the instance's buffer
bufferData(x) ==
  /\ buffer' = [buffer EXCEPT ![x] =
                  [i \in 1..64 |-> IF i <= Len(data) THEN data[i] ELSE @[i]]]
  /\ Called("bufferData", x, FALSE, <<>>, 0, <<>>)
  /\ Unchanged13

\* the engine leaves the single padded block of the input in the buffer
pad(x) ==
  /\ Len(data) <= 55
  /\ buffer' = [buffer EXCEPT ![x] = Pad(data)]
  /\ Called("pad", x, FALSE, <<>>, 0, <<>>)
  /\ Unchanged13

\* the engine writes get() out as the digest bytes
output(x) ==
  /\ out' = Serialize(Get(x))
  /\ Called("output", x, FALSE, <<>>, 0, <<>>)
  /\ UNCHANGED <<A, B, C, D, buffer, MD5_W, data, ret, log, alone, aloneW, whole, retWhole>>

\* ------------------------------------------------------ specifications ----
\* fewer than n calls were made
Open(n) == calls < n

\* every call of the class, on two instances, on a two-block input
Next ==
  \E x \in Inst :
    \/ \E offset \in Offsets : Open(MaxCalls) /\ process(x, data, offset)
    \/ Open(MaxCalls) /\ get(x)
    \/ \E a \in SetArgs : Open(MaxCalls) /\ set(x, a)
    \/ Open(MaxCalls) /\ roundClean(x)
    \/ Open(MaxCalls) /\ destroy(x)
    \/ Open(MaxCalls) /\ bufferData(x)

Spec == Init /\ [][Next]_vars

\* one instance digesting one short message through the engine
InitDigest == \E m \in Messages : Fresh(m)

NextDigest ==
  \/ Open(MaxDigestCalls) /\ pad(1)
  \/ Open(MaxDigestCalls) /\ process(1, buffer[1], 0)
  \/ Open(MaxDigestCalls) /\ output(1)
  \/ Open(MaxDigestCalls) /\ destroy(1)

SpecDigest == InitDigest /\ [][NextDigest]_vars

\* snapshots taken with get and restored with set, between two instances
NextResume ==
  \E x \in Inst :
    \/ \E offset \in BlockOffsets : Open(MaxResumeCalls) /\ process(x, data, offset)
    \/ Open(MaxResumeCalls) /\ get(x)
    \/ Open(MaxResumeCalls) /\ restore(x)

SpecResume == Init /\ [][NextResume]_vars

\* ------------------------------------------------------------- claims ----
\* the HashState of instance x, and a tuple of words taken modulo 2^32
HashState(x) == <<A[x], B[x], C[x], D[x]>>
Mod32(st) == <<ToUint32(st[1]), ToUint32(st[2]), ToUint32(st[3]), ToUint32(st[4])>>
ZeroState == <<Zero, Zero, Zero, Zero>>
IsUint32(n) == n[1] \in 0..65535 /\ n[2] \in 0..65535
IsInt32(n) == n[1] \in -32768..32767 /\ n[2] \in 0..65535
Completed == last.op = "process" /\ ~last.threw

\* C1 ----------------------------------------------------------------------
DigestTrail == << <<"pad", 1>>, <<"process", 1>>, <<"output", 1>> >>

KnownAnswer(m) ==
  IF m = MsgEmpty THEN "d41d8cd98f00b204e9800998ecf8427e"
  ELSE IF m = MsgAbc THEN "900150983cd24fb0d6963f7d28e17f72"
  ELSE "9e107d9d372bb6826bd81d3542a419d6"

\* C1: from the IV, one process over the single padded block of "", "abc" or
\* "The quick brown fox jumps over the lazy dog", then A, B, C, D written out
\* little-endian, gives the known MD5 digest of that message.
C1_KnownAnswers ==
  (trail = DigestTrail /\ data \in Messages) => Hex(out) = KnownAnswer(data)

C1_FoxDigested == trail = DigestTrail /\ data = MsgFox /\ Len(out) = 16

\* C2 ----------------------------------------------------------------------
\* The reference algorithm on unsigned words, every sum reduced modulo 2^32.
RefAdd(x, y) ==
  <<(x[1] + y[1] + ((x[2] + y[2]) \div 65536)) % 65536, (x[2] + y[2]) % 65536>>
RefAnd(x, y) == <<And16(x[1], y[1]), And16(x[2], y[2])>>
RefOr(x, y) == <<Or16(x[1], y[1]), Or16(x[2], y[2])>>
RefXor(x, y) == <<Xor16(x[1], y[1]), Xor16(x[2], y[2])>>
RefNot(x) == <<65535 - x[1], 65535 - x[2]>>

\* rotl32 on the two halves: by 16 the halves swap, below 16 each half takes
\* the top bits of the other
RefRotlHalves(a, b, m) ==
  <<((a * 2^m) % 65536) + (b \div 2^(16 - m)), ((b * 2^m) % 65536) + (a \div 2^(16 - m))>>
RefRotl(x, n) ==
  IF n >= 16 THEN RefRotlHalves(x[2], x[1], n - 16) ELSE RefRotlHalves(x[1], x[2], n)

RefF(i, b, c, d) ==
  CASE i \div 16 = 0 -> RefOr(RefAnd(b, c), RefAnd(RefNot(b), d))
    [] i \div 16 = 1 -> RefOr(RefAnd(d, b), RefAnd(RefNot(d), c))
    [] i \div 16 = 2 -> RefXor(RefXor(b, c), d)
    [] i \div 16 = 3 -> RefXor(c, RefOr(b, RefNot(d)))

RefG(i) ==
  CASE i \div 16 = 0 -> i
    [] i \div 16 = 1 -> (5 * i + 1) % 16
    [] i \div 16 = 2 -> (3 * i + 5) % 16
    [] i \div 16 = 3 -> (7 * i) % 16

RefShiftGroup(phase) ==
  << <<7, 12, 17, 22>>, <<5, 9, 14, 20>>, <<4, 11, 16, 23>>, <<6, 10, 15, 21>> >>[phase + 1]

RefT(i, v, W) ==
  RefAdd(RefAdd(RefAdd(RefF(i, v[2], v[3], v[4]), v[1]), ToUint32(MD5_K[i + 1])), W[RefG(i)])

RefRound(i, v, W) ==
  <<v[4], RefAdd(v[2], RefRotl(RefT(i, v, W), RefShiftGroup(i \div 16)[(i % 4) + 1])), v[2], v[3]>>

RECURSIVE RefLoop(_, _)
RefLoop(st, n) ==
  IF st[1] < n
  THEN RefLoop(<<st[1] + 1, RefRound(st[1], st[2], st[3]), st[3]>>, n)
  ELSE st

RefRounds(v, W) == RefLoop(RefLoop(RefLoop(RefLoop(<<0, v, W>>, 16), 32), 48), 64)[2]

RefFeed(v, r) ==
  <<RefAdd(v[1], r[1]), RefAdd(v[2], r[2]), RefAdd(v[3], r[3]), RefAdd(v[4], r[4])>>

RefCompress(v, W) == RefFeed(v, RefRounds(v, W))

\* W[i] = the little-endian uint32 at block[4i .. 4i + 3]
RefWords(view, offset) ==
  [i \in 0..15 |->
     <<view[offset + 4 * i + 4] * 256 + view[offset + 4 * i + 3],
       view[offset + 4 * i + 2] * 256 + view[offset + 4 * i + 1]>>]

\* C2: after every completed process, the HashState equals, modulo 2^32, the
\* reference compression (all sums reduced modulo 2^32 at every step, then the
\* feed-forward) of the state before the call and the block read.
C2_MatchesReference ==
  Completed =>
    Mod32(HashState(last.x))
      = RefCompress(Mod32(last.pre), RefWords(last.view, last.offset))

\* a completed process in which some round's sum reached 2^32
C2_SumWrapped == Completed /\ \E i \in 1..Len(log) : log[i].F[1] >= 65536

\* C3 ----------------------------------------------------------------------
ResumeTrail ==
  << <<"process", 1>>, <<"get", 1>>, <<"restore", 2>>, <<"process", 2>> >>

\* C3: set with the tuple get returned makes the HashState that tuple (so it
\* leaves the instance it was taken from unchanged), and an instance restored
\* from a snapshot and fed the remaining blocks has the HashState of one
\* instance fed all the blocks from the IV without interruption.
C3_SnapshotResume ==
  /\ last.op = "restore" => HashState(last.x) = ret
  /\ (last.op = "restore" /\ trail[Len(trail) - 1] = <<"get", last.x>>)
       => HashState(last.x) = last.pre
  /\ \A x \in Inst : whole[x].valid => HashState(x) = whole[x].h

C3_Resumed ==
  /\ trail = ResumeTrail
  /\ Completed
  /\ whole[2].valid
  /\ HashState(1) # HashState(2)

\* C4 ----------------------------------------------------------------------
\* C4 as stated: every stored word and every word get() returned is in
\* 0..2^32-1.
C4_Uint32Words ==
  /\ \A x \in Inst : \A k \in 1..4 : IsUint32(HashState(x)[k])
  /\ ret # <<>> => \A k \in 1..4 : IsUint32(ret[k])

\* C4 as amended: every stored word and every word get() returned is a signed
\* 32-bit integer in -2^31..2^31-1; set stores each argument reduced modulo
\* 2^32 into that range; get() returns A, B, C, D in that order.
C4_Int32Words ==
  /\ \A x \in Inst : \A k \in 1..4 : IsInt32(HashState(x)[k])
  /\ ret # <<>> => \A k \in 1..4 : IsInt32(ret[k])
  /\ last.op = "get" => ret = <<A[last.x], B[last.x], C[last.x], D[last.x]>>
  /\ last.op = "set" => Mod32(HashState(last.x)) = Mod32(last.arg)

\* set(2^32 + 5, -1, 2^31, -2^31 - 1) stored 5, -1, -2^31, 2^31 - 1
C4_SetWrapped ==
  /\ last.op = "set"
  /\ HashState(last.x) = << <<0, 5>>, <<-1, 65535>>, <<-32768, 0>>, <<32767, 65535>> >>

\* C5 ----------------------------------------------------------------------
\* C5: right after destroy() the four words are zero and every byte of the
\* instance's buffer is zero.
C5_Zeroized ==
  last.op = "destroy" =>
    /\ HashState(last.x) = ZeroState
    /\ DOMAIN buffer[last.x] = 1..64
    /\ \A i \in 1..64 : buffer[last.x][i] = 0

\* destroy of an instance whose buffer held input bytes and which processed a block
C5_DestroyedAfterUse ==
  /\ trail = << <<"bufferData", 1>>, <<"process", 1>>, <<"destroy", 1>> >>
  /\ last.pre # SetWords(IV)
  /\ last.pre # ZeroState

\* C6 ----------------------------------------------------------------------
AllZero(W) == \A i \in 0..15 : W[i] = Zero

\* C6: the scratch words are all zero whenever process starts to load a
\* block, and all zero after destroy().
C6_ScratchZeroed ==
  [][/\ last'.op = "process" => AllZero(ScratchOf(last'.x))
     /\ last'.op = "destroy" => AllZero(ScratchOf(last'.x)')]_vars

\* C7 ----------------------------------------------------------------------
OnScratch == {"process", "roundClean"}

\* C7 as stated: no process or roundClean on X changes the scratch buffer Y uses.
C7_InstanceOwned ==
  [][\A X \in Inst, Y \in Inst :
       (X # Y /\ last'.x = X /\ last'.op \in OnScratch)
         => ScratchOf(Y)' = ScratchOf(Y)]_vars

\* C7 as amended: there is one scratch buffer, which every instance uses; a
\* process or roundClean on X may overwrite it, and changes neither the
\* HashState nor the byte buffer of another instance Y.
C7_SharedScratch ==
  [][\A X \in Inst, Y \in Inst :
       (X # Y /\ last'.x = X /\ last'.op \in OnScratch)
         => /\ ScratchOf(X)' = ScratchOf(Y)'
            /\ HashState(Y)' = HashState(Y)
            /\ buffer'[Y] = buffer[Y]]_vars

\* instance 1 completed a process after instance 2 had, and the scratch
\* buffer no longer holds what instance 2 left in it
C7_BothProcessed ==
  /\ Len(trail) >= 2
  /\ trail[1] = <<"process", 2>>
  /\ trail[2] = <<"process", 1>>
  /\ HashState(1) # SetWords(IV)
  /\ HashState(2) # SetWords(IV)
  /\ MD5_W # aloneW[2]

\* C8 ----------------------------------------------------------------------
\* C8: under every interleaving of whole calls, each instance has the
\* HashState of its twin, which received the same calls but has a scratch
\* buffer of its own.
C8_Independent == \A x \in Inst : HashState(x) = alone[x]

\* instance 1 processed a block on a scratch buffer last written by instance 2
C8_Interleaved ==
  /\ trail = << <<"process", 1>>, <<"process", 2>>, <<"process", 1>> >>
  /\ Completed
  /\ HashState(2) # SetWords(IV)
  /\ aloneW[1] # aloneW[2]

\* C9 ----------------------------------------------------------------------
\* C9: a process called with fewer than 64 readable bytes throws and leaves
\* the HashState as it was before the call.
C9_FaultKeepsState ==
  (last.op = "process" /\ Readable(last.view, last.offset) < 64)
    => /\ last.threw
       /\ HashState(last.x) = last.pre

\* a process that threw part-way through the load, on a state that had moved on
C9_Faulted ==
  /\ last.op = "process"
  /\ last.threw
  /\ Readable(last.view, last.offset) = 60
  /\ last.pre # SetWords(IV)
  /\ last.pre # ZeroState
  /\ ~AllZero(MD5_W)

\* C10 ---------------------------------------------------------------------
PhaseRounds(p) == (16 * p)..(16 * p + 15)

\* C10: in a completed process the index g of every round is in 0..15 and is
\* i, (5i+1) mod 16, (3i+5) mod 16, (7i) mod 16 by phase; in each phase the 16
\* rounds read 16 different words, so every word is read 4 times per block;
\* the shift of round i is entry i mod 4 of the phase's shift group.
C10_IndexAndShift ==
  Completed =>
    /\ Len(log) = 64
    /\ \A i \in 0..63 :
         /\ log[i + 1].g \in 0..15
         /\ log[i + 1].g = RefG(i)
         /\ log[i + 1].s = RefShiftGroup(i \div 16)[(i % 4) + 1]
    /\ \A p \in 0..3 : {log[i + 1].g : i \in PhaseRounds(p)} = 0..15
    /\ \A k \in 0..15 : Cardinality({i \in 0..63 : log[i + 1].g = k}) = 4

C10_RoundsLogged == Completed /\ Len(log) = 64

====
